---- MODULE Spec2Model ----
(***************************************************************************)
(* scripts/start_server_enhanced.py: a FastAPI application that serves one *)
(* llama.cpp model handle behind /generate, /complete, /chat, /batch,      *)
(* /health and /.                                                          *)
(*                                                                         *)
(* Every route is an `async def` coroutine that calls the model            *)
(* synchronously and never awaits.  uvicorn.run(app) starts one process    *)
(* with one event loop, so a request is a task of that loop: it waits      *)
(* ("pending") until the loop is free, and from the moment the loop runs   *)
(* it (dependency get_api_key, pydantic body validation, the endpoint      *)
(* body with its model calls) it keeps the loop until it returns or an     *)
(* exception leaves it.  Clients may connect at any moment, also while the *)
(* loop is blocked inside the model.                                       *)
(***************************************************************************)
EXTENDS Naturals, Integers, Sequences, FiniteSets, TLC

\* ------------------------------------------------------------------ bounds
NumRequests == 2
MaxPrompts == 3

\* --------------------------------------------------- what the spec configures
\* spec.md sections 4.2, 4.3 and 8: ceilings the gateway is to enforce.
\* start_server_enhanced.py defines neither.
MaxNewTokensCeiling == 2048
MaxBatchSize == 2

\* ------------------------------------------------------------------ values
Requests == 1 .. NumRequests
NoOne == 0
NoKey == "None"          \* Python's None: no environment variable, no header

ProtectedRoutes == {"generate", "complete", "chat", "batch"}
OpenRoutes == {"health", "root"}

ConfiguredKeys == {NoKey, "", "secret"}
PresentedKeys == {NoKey, "secret", "wrong"}
TokenValues == {0, 512, 5000}
Roles == {"system", "user", "assistant", "tool"}

ChatMessages == {[role |-> ro, content |-> "hi"] : ro \in Roles}
MessageLists ==
    {<<>>} \cup {<<m>> : m \in ChatMessages}
        \cup {<<[role |-> "system", content |-> "be brief"],
                [role |-> "user", content |-> "hi"]>>}

\* The batch of n prompts: "p1", ..., "pn", each prompt its own text.
PromptNames == <<"p1", "p2", "p3", "p4", "p5">>
PromptList(n) == SubSeq(PromptNames, 1, n)

\* A body pydantic cannot coerce to the request class (a missing field, a
\* max_new_tokens that is no integer).
IllTyped == [typed |-> FALSE]
NoBody == [typed |-> TRUE]

GenerateBody(n) == [typed |-> TRUE, prompt |-> "a", max_new_tokens |-> n]
CompleteBody == [typed |-> TRUE, code |-> "def f():", max_new_tokens |-> 100]
CompleteBodyOpen == [typed |-> TRUE, code |-> " x = ", max_new_tokens |-> 100]
ChatBody(ms) == [typed |-> TRUE, messages |-> ms, max_new_tokens |-> 512]
BatchBody(n, t) == [typed |-> TRUE, prompts |-> PromptList(n), max_new_tokens |-> t]

\* The bodies of the runs with concurrent clients.
Bodies(route) ==
    CASE route = "generate" -> {GenerateBody(512), IllTyped}
      [] route = "complete" -> {CompleteBody}
      [] route = "chat" -> {ChatBody(<<[role |-> "user", content |-> "hi"]>>)}
      [] route = "batch" -> {BatchBody(0, 512), BatchBody(2, 512)}
      [] OTHER -> {NoBody}

\* The bodies of the runs with one client.
AllBodies(route) ==
    CASE route = "generate" -> {GenerateBody(n) : n \in TokenValues} \cup {IllTyped}
      [] route = "complete" -> {CompleteBody, CompleteBodyOpen, IllTyped}
      [] route = "chat" -> {ChatBody(ms) : ms \in MessageLists} \cup {IllTyped}
      [] route = "batch" ->
            {BatchBody(n, t) : n \in 0 .. MaxPrompts, t \in {512, 5000}} \cup {IllTyped}
      [] OTHER -> {NoBody}

AllRoutes == ProtectedRoutes \cup OpenRoutes
Request(route, key, body) == [route |-> route, key |-> key, body |-> body]

\* Concurrent clients: every route with the key "secret", and one request with
\* another key.
Inputs ==
    UNION {{Request(ro, "secret", b) : b \in Bodies(ro)} : ro \in AllRoutes}
        \cup {Request("generate", "wrong", GenerateBody(512))}

\* One client: every route, every key, every body.
AllInputs ==
    UNION {{Request(ro, k, b) : k \in PresentedKeys, b \in AllBodies(ro)} : ro \in AllRoutes}
NoRequest == [route |-> "none", key |-> NoKey, body |-> NoBody]

\* ------------------------------------------------------------------- state
VARIABLES
    API_KEY,      \* os.environ.get("LLM_API_KEY"), read once at import
    pc,           \* where each request is: new, pending, auth, validate,
                  \* endpoint, model, done
    req,          \* the request each client sent
    running,      \* the task the event loop is executing, or NoOne
    idx,          \* batch_generate: how many prompts the loop has finished
    results,      \* batch_generate: the results list
    modelCalls,   \* the calls of model(...) each request has made, in order
    outcome,      \* how each request ended
    response,     \* the body returned
    waitedBusy    \* the request was pending while the model was executing

vars ==
    <<API_KEY, pc, req, running, idx, results, modelCalls, outcome, response, waitedBusy>>

NoResponse == [kind |-> "none"]

Init ==
    /\ API_KEY \in ConfiguredKeys
    /\ pc = [r \in Requests |-> "new"]
    /\ req = [r \in Requests |-> NoRequest]
    /\ running = NoOne
    /\ idx = [r \in Requests |-> 0]
    /\ results = [r \in Requests |-> <<>>]
    /\ modelCalls = [r \in Requests |-> <<>>]
    /\ outcome = [r \in Requests |-> "none"]
    /\ response = [r \in Requests |-> NoResponse]
    /\ waitedBusy = [r \in Requests |-> FALSE]

\* ----------------------------------------------------------------- helpers
InModel == {r \in Requests : pc[r] = "model"}
Calls(r) == Len(modelCalls[r])

\* Python truthiness of an Optional[str].
Truthy(s) == s # NoKey /\ s # ""

\* get_api_key: `if API_KEY and api_key != API_KEY: raise HTTPException(403)`.
DeniedIgnoringMissingHeader(expected, presented) ==
    Truthy(expected) /\ presented # NoKey /\ presented # expected
DeniedAlwaysComparing(expected, presented) == presented # expected
Denied(expected, presented) == Truthy(expected) /\ presented # expected

\* BaseModel validation of the request classes: field types only.
ValidBody(body) == body.typed

\* The model handle, as an instrumented fake: the text depends on the prompt.
\* It comes with the white space a completion starts and ends with.
ModelText(prompt) == " <" \o prompt \o ">\n"

\* str.strip()
WhiteSpace == {" ", "\n", "\t"}
RECURSIVE Strip(_)
Strip(s) ==
    IF Len(s) = 0 THEN s
    ELSE IF SubSeq(s, 1, 1) \in WhiteSpace THEN Strip(SubSeq(s, 2, Len(s)))
    ELSE IF SubSeq(s, Len(s), Len(s)) \in WhiteSpace THEN Strip(SubSeq(s, 1, Len(s) - 1))
    ELSE s
ModelError == "model failed"

\* chat: the prompt built from the messages.
RECURSIVE FormatChat(_)
FormatChat(messages) ==
    IF messages = <<>> THEN "Assistant: "
    ELSE LET msg == Head(messages)
             seg == CASE msg.role = "system" -> "System: " \o msg.content \o "\n\n"
                      [] msg.role = "user" -> "User: " \o msg.content \o "\n\n"
                      [] msg.role = "assistant" -> "Assistant: " \o msg.content \o "\n\n"
                      [] OTHER -> ""
         IN  seg \o FormatChat(Tail(messages))

\* complete_code: prompt = f"{request.code}"
FormatCompleteInstruction(code) == "Complete: " \o code
FormatComplete(code) == code

\* The prompt the handler of request r passes to model(...) next.
PromptForLastFirst(r) ==
    CASE req[r].route = "generate" -> req[r].body.prompt
      [] req[r].route = "complete" -> FormatComplete(req[r].body.code)
      [] req[r].route = "chat" -> FormatChat(req[r].body.messages)
      [] req[r].route = "batch" ->
            req[r].body.prompts[Len(req[r].body.prompts) - idx[r]]
PromptFor(r) ==
    CASE req[r].route = "generate" -> req[r].body.prompt
      [] req[r].route = "complete" -> FormatComplete(req[r].body.code)
      [] req[r].route = "chat" -> FormatChat(req[r].body.messages)
      [] req[r].route = "batch" -> req[r].body.prompts[idx[r] + 1]

\* The event loop runs one task at a time.
LoopFreeThreadPool == TRUE
LoopFree == running = NoOne

\* The loop after an item of batch_generate's for loop: the loop body has no
\* await, the task keeps the event loop.
LoopYieldedAfterItem(r) == NoOne
LoopAfterItem(r) == r

\* The loop after a task's coroutine has ended (returned or raised).
LoopHeldAfterExit(r) == r
LoopAfterExit(r) == NoOne

Finish(r, how, body) ==
    /\ pc' = [pc EXCEPT ![r] = "done"]
    /\ outcome' = [outcome EXCEPT ![r] = how]
    /\ response' = [response EXCEPT ![r] = body]
    /\ running' = LoopAfterExit(r)

\* ----------------------------------------------------------------- actions
\* A client sends a request; requests are numbered in order of arrival.
Arrive(r, inp) ==
    /\ pc[r] = "new"
    /\ \A q \in Requests : q < r => pc[q] # "new"
    /\ pc' = [pc EXCEPT ![r] = "pending"]
    /\ req' = [req EXCEPT ![r] = inp]
    /\ waitedBusy' = [waitedBusy EXCEPT ![r] = InModel # {}]
    /\ UNCHANGED <<API_KEY, running, idx, results, modelCalls, outcome, response>>

\* Where a route's task starts: the routes declared with Depends(get_api_key)
\* at the dependency, GET /health and GET / at the endpoint body.
EntryPointBehindAuth(route) == "auth"
EntryPoint(route) == IF route \in ProtectedRoutes THEN "auth" ELSE "endpoint"

\* The event loop starts the request's task.
Dispatch(r) ==
    /\ pc[r] = "pending"
    /\ LoopFree
    /\ running' = r
    /\ pc' = [pc EXCEPT ![r] = EntryPoint(req[r].route)]
    /\ UNCHANGED <<API_KEY, req, idx, results, modelCalls, outcome, response, waitedBusy>>

\* Depends(get_api_key)
GetApiKey(r) ==
    /\ pc[r] = "auth"
    /\ IF Denied(API_KEY, req[r].key)
       THEN Finish(r, "Forbidden403", [kind |-> "error", detail |-> "Invalid API Key"])
       ELSE /\ pc' = [pc EXCEPT ![r] = "validate"]
            /\ UNCHANGED <<running, outcome, response>>
    /\ UNCHANGED <<API_KEY, req, idx, results, modelCalls, waitedBusy>>

\* The body parsed into GenerateRequest, CompleteRequest, ChatRequest, BatchRequest.
ValidateBody(r) ==
    /\ pc[r] = "validate"
    /\ IF ValidBody(req[r].body)
       THEN /\ pc' = [pc EXCEPT ![r] = "endpoint"]
            /\ UNCHANGED <<running, outcome, response>>
       ELSE Finish(r, "Validation422", [kind |-> "error", detail |-> "validation"])
    /\ UNCHANGED <<API_KEY, req, idx, results, modelCalls, waitedBusy>>

\* The handler calls model(prompt, max_tokens=request.max_new_tokens, ...): the
\* event loop's thread is inside llama.cpp until the call returns or raises.
CallModel(r) ==
    /\ pc[r] = "endpoint"
    /\ req[r].route \in ProtectedRoutes
    /\ req[r].route = "batch" => idx[r] < Len(req[r].body.prompts)
    /\ pc' = [pc EXCEPT ![r] = "model"]
    /\ modelCalls' = [modelCalls EXCEPT ![r] =
          Append(@, [prompt |-> PromptFor(r),
                     max_tokens |-> req[r].body.max_new_tokens,
                     result |-> "running"])]
    /\ waitedBusy' = [q \in Requests |-> waitedBusy[q] \/ pc[q] = "pending"]
    /\ UNCHANGED <<API_KEY, req, running, idx, results, outcome, response>>

LastCall(r) == modelCalls[r][Len(modelCalls[r])]
CallEnds(r, how) ==
    modelCalls' = [modelCalls EXCEPT ![r][Len(modelCalls[r])].result = how]

\* generate_text: the model returned.
GenerateReturn(r) ==
    /\ pc[r] = "model"
    /\ req[r].route = "generate"
    /\ CallEnds(r, "returned")
    /\ Finish(r, "OK200", [kind |-> "generate",
                           generated_text |-> ModelText(LastCall(r).prompt)])
    /\ UNCHANGED <<API_KEY, req, idx, results, waitedBusy>>

\* complete_code: the model returned.
CompleteReturn(r) ==
    /\ pc[r] = "model"
    /\ req[r].route = "complete"
    /\ CallEnds(r, "returned")
    /\ LET completion == ModelText(LastCall(r).prompt)
       IN  Finish(r, "OK200", [kind |-> "complete",
                               completion |-> completion,
                               full_code |-> req[r].body.code \o completion])
    /\ UNCHANGED <<API_KEY, req, idx, results, waitedBusy>>

\* chat: the model returned.
ChatReturn(r) ==
    /\ pc[r] = "model"
    /\ req[r].route = "chat"
    /\ CallEnds(r, "returned")
    /\ Finish(r, "OK200", [kind |-> "chat",
                           response |-> Strip(ModelText(LastCall(r).prompt))])
    /\ UNCHANGED <<API_KEY, req, idx, results, waitedBusy>>

\* generate_text, complete_code, chat: model(...) raised.  None of the three has
\* a try block: the exception leaves the coroutine and the server answers 500.
HandlerRaises(r) ==
    /\ pc[r] = "model"
    /\ req[r].route \in {"generate", "complete", "chat"}
    /\ CallEnds(r, "raised")
    /\ Finish(r, "Unhandled500", [kind |-> "unhandled", exception |-> ModelError])
    /\ UNCHANGED <<API_KEY, req, idx, results, waitedBusy>>

\* batch_generate: the loop body's two branches and the loop's next index.
SuccessEntry(i, prompt, text) ==
    [index |-> i, prompt |-> prompt, generated_text |-> text, status |-> "success"]
ErrorEntry(i, prompt, reason) ==
    [index |-> i, prompt |-> prompt, error |-> reason, status |-> "error"]

AfterErrorNothingRecorded(res, i, prompt, reason) == res
AfterError(res, i, prompt, reason) == Append(res, ErrorEntry(i, prompt, reason))

IndexAfterErrorBreak(i, n) == n
IndexAfterErrorSkipsNext(i, n) == i + 2
IndexAfterError(i, n) == i + 1

BatchItemSuccess(r) ==
    /\ pc[r] = "model"
    /\ req[r].route = "batch"
    /\ CallEnds(r, "returned")
    /\ results' = [results EXCEPT ![r] =
          Append(@, SuccessEntry(idx[r], LastCall(r).prompt,
                                 ModelText(LastCall(r).prompt)))]
    /\ idx' = [idx EXCEPT ![r] = @ + 1]
    /\ pc' = [pc EXCEPT ![r] = "endpoint"]
    /\ running' = LoopAfterItem(r)
    /\ UNCHANGED <<API_KEY, req, outcome, response, waitedBusy>>

BatchItemError(r) ==
    /\ pc[r] = "model"
    /\ req[r].route = "batch"
    /\ CallEnds(r, "raised")
    /\ results' = [results EXCEPT ![r] =
          AfterError(@, idx[r], LastCall(r).prompt, ModelError)]
    /\ idx' = [idx EXCEPT ![r] = IndexAfterError(@, Len(req[r].body.prompts))]
    /\ pc' = [pc EXCEPT ![r] = "endpoint"]
    /\ running' = LoopAfterItem(r)
    /\ UNCHANGED <<API_KEY, req, outcome, response, waitedBusy>>

CountStatusCountsAll(res, s) == Len(res)
CountStatus(res, s) == Cardinality({i \in 1 .. Len(res) : res[i].status = s})

\* batch_generate: the loop is over.
BatchReturn(r) ==
    /\ pc[r] = "endpoint"
    /\ req[r].route = "batch"
    /\ idx[r] >= Len(req[r].body.prompts)
    /\ Finish(r, "OK200", [kind |-> "batch",
                           results |-> results[r],
                           total_prompts |-> Len(req[r].body.prompts),
                           successful |-> CountStatus(results[r], "success"),
                           failed |-> CountStatus(results[r], "error")])
    /\ UNCHANGED <<API_KEY, req, idx, results, modelCalls, waitedBusy>>

\* GET /health
Health(r) ==
    /\ pc[r] = "endpoint"
    /\ req[r].route = "health"
    /\ Finish(r, "OK200", [kind |-> "health",
                           status |-> "ok",
                           model_loaded |-> TRUE,
                           auth_enabled |-> API_KEY # NoKey])
    /\ UNCHANGED <<API_KEY, req, idx, results, modelCalls, waitedBusy>>

\* GET /
Root(r) ==
    /\ pc[r] = "endpoint"
    /\ req[r].route = "root"
    /\ Finish(r, "OK200", [kind |-> "root",
                           authentication |->
                               IF Truthy(API_KEY) THEN "Required" ELSE "Disabled"])
    /\ UNCHANGED <<API_KEY, req, idx, results, modelCalls, waitedBusy>>

Step(r) ==
    \/ Dispatch(r)
    \/ GetApiKey(r)
    \/ ValidateBody(r)
    \/ CallModel(r)
    \/ GenerateReturn(r)
    \/ CompleteReturn(r)
    \/ ChatReturn(r)
    \/ HandlerRaises(r)
    \/ BatchItemSuccess(r)
    \/ BatchItemError(r)
    \/ BatchReturn(r)
    \/ Health(r)
    \/ Root(r)

\* Concurrent clients.
Next ==
    \E r \in Requests :
        \/ \E inp \in Inputs : Arrive(r, inp)
        \/ Step(r)

Spec == Init /\ [][Next]_vars

\* One client, one request, any body.
NextOneClient ==
    \/ \E inp \in AllInputs : Arrive(1, inp)
    \/ Step(1)

SpecOneClient == Init /\ [][NextOneClient]_vars

\* ------------------------------------------------------------------ claims
Protected(r) == req[r].route \in ProtectedRoutes
Done(r) == pc[r] = "done"
Raised(r) == \E i \in 1 .. Calls(r) : modelCalls[r][i].result = "raised"
AuthEnforced == Truthy(API_KEY)
\* The model calls a request makes once it is admitted.
Demand(r) == IF req[r].route = "batch" THEN Len(req[r].body.prompts) ELSE 1

\* C1: with the one model handle, whatever the interleaving of requests to
\* /generate, /complete, /chat and /batch, at most one request is inside the
\* model call at any moment, and it is the task the event loop is running.
C1_MutualExclusion ==
    /\ \A r1, r2 \in InModel : r1 = r2
    /\ \A r \in InModel : running = r

\* A request is inside the model while another request to a protected route,
\* sent meanwhile, waits.
C1_Witness ==
    \E r1, r2 \in Requests :
        /\ pc[r1] = "model" /\ req[r1].route = "batch"
        /\ pc[r2] = "pending" /\ Protected(r2) /\ waitedBusy[r2]

\* C2: with an expected key configured, a request to a protected route whose
\* X-API-Key is absent or differs from it never gets past get_api_key: the model
\* is called zero times for it and it ends with 403.
C2_WrongKeyForbidden ==
    \A r \in Requests :
        (AuthEnforced /\ Protected(r) /\ req[r].key # API_KEY) =>
            /\ pc[r] \in {"pending", "auth", "done"}
            /\ Calls(r) = 0
            /\ Done(r) => outcome[r] = "Forbidden403"

\* A /batch request of two prompts without a header has been refused.
C2_Witness ==
    /\ API_KEY = "secret"
    /\ \E r \in Requests :
          /\ Done(r) /\ outcome[r] = "Forbidden403"
          /\ req[r].route = "batch" /\ req[r].key = NoKey
          /\ req[r].body.typed /\ Len(req[r].body.prompts) = 2

\* C3: with no expected key configured (unset or empty), a request to a
\* protected route passes get_api_key whatever its header: it is never answered
\* 403, and with a well-typed body it makes every model call of its handler.
C3_AuthDisabledPasses ==
    \A r \in Requests :
        (~AuthEnforced /\ Protected(r)) =>
            /\ outcome[r] # "Forbidden403"
            /\ (Done(r) /\ ValidBody(req[r].body)) => Calls(r) = Demand(r)

\* With no key configured, a /generate request without a header was answered
\* from the model.
C3_Witness ==
    /\ API_KEY = NoKey
    /\ \E r \in Requests :
          /\ Done(r) /\ outcome[r] = "OK200"
          /\ req[r].route = "generate" /\ req[r].key = NoKey
          /\ Calls(r) = 1

Admitted(r) == Protected(r) /\ ~Denied(API_KEY, req[r].key) /\ ValidBody(req[r].body)
BatchDone(r) == req[r].route = "batch" /\ Done(r) /\ Admitted(r)

\* C4: a /batch request with N prompts (N >= 0) ends, whatever items failed,
\* with a results list of exactly N entries, entry i (from 0) carrying index i
\* and the i-th input prompt.
C4_BatchOrderAndLength ==
    \A r \in Requests :
        /\ (req[r].route = "batch" /\ pc[r] \in {"endpoint", "model"}) =>
              Len(results[r]) = idx[r]
        /\ BatchDone(r) =>
              /\ outcome[r] = "OK200"
              /\ response[r].kind = "batch"
              /\ Len(response[r].results) = Len(req[r].body.prompts)
              /\ \A i \in 1 .. Len(req[r].body.prompts) :
                    /\ response[r].results[i].index = i - 1
                    /\ response[r].results[i].prompt = req[r].body.prompts[i]

\* A batch of three prompts has been answered, its second item failed and its
\* other items succeeded.
C4_Witness ==
    \E r \in Requests :
        /\ BatchDone(r)
        /\ Len(req[r].body.prompts) = 3
        /\ response[r].results[1].status = "success"
        /\ response[r].results[2].status = "error"
        /\ response[r].results[3].status = "success"

\* C5: in a /batch request, an item whose model call raised is recorded with
\* status error and the reason, the batch still ends successfully, and every
\* item is submitted to the model, the others carrying status success and the
\* text the model returned for their prompt.
C5_BatchPartialFailure ==
    \A r \in Requests :
        /\ (req[r].route = "batch" /\ Raised(r)) => outcome[r] \in {"none", "OK200"}
        /\ BatchDone(r) =>
              /\ outcome[r] = "OK200"
              /\ Calls(r) = Len(req[r].body.prompts)
              /\ Len(response[r].results) = Len(req[r].body.prompts)
              /\ \A i \in 1 .. Len(req[r].body.prompts) :
                    LET call == modelCalls[r][i]
                        item == response[r].results[i]
                    IN  /\ call.prompt = req[r].body.prompts[i]
                        /\ call.result \in {"returned", "raised"}
                        /\ call.result = "raised" =>
                              item.status = "error" /\ item.error = ModelError
                        /\ call.result = "returned" =>
                              /\ item.status = "success"
                              /\ item.generated_text = ModelText(req[r].body.prompts[i])

\* A batch of three prompts has ended after the model raised for its first item
\* and returned for the two after it.
C5_Witness ==
    \E r \in Requests :
        /\ BatchDone(r)
        /\ Len(req[r].body.prompts) = 3
        /\ modelCalls[r][1].result = "raised"
        /\ modelCalls[r][2].result = "returned"
        /\ modelCalls[r][3].result = "returned"
        /\ response[r].failed = 1

\* C6: a request whose max_new_tokens exceeds the configured ceiling, or is
\* below 1, is rejected with a validation error before the model is invoked: no
\* model call is made for it on any protected route.
C6_CeilingEnforced ==
    \A r \in Requests :
        (/\ Protected(r)
         /\ req[r].body.typed
         /\ \/ req[r].body.max_new_tokens > MaxNewTokensCeiling
            \/ req[r].body.max_new_tokens < 1) =>
            /\ Calls(r) = 0
            /\ Done(r) => outcome[r] \in {"Forbidden403", "Validation422"}

\* C7: when the model call raises, batch or not, the model is given back on that
\* exit path: once the failing request has ended it holds neither the event
\* loop nor the model, and with no request in its handler the loop is free for
\* the next one.
C7_ReleasedOnRaise ==
    /\ \A r \in Requests :
          (Done(r) /\ Raised(r)) => (running # r /\ r \notin InModel)
    /\ (\A r \in Requests : pc[r] \in {"new", "pending", "done"}) => LoopFree

\* A request ended with the model's exception, and a request dispatched after it
\* is inside the model.
C7_Witness ==
    \E r1, r2 \in Requests :
        /\ Done(r1) /\ outcome[r1] = "Unhandled500" /\ Raised(r1)
        /\ pc[r2] = "model" /\ waitedBusy[r2]

\* C8: on /generate, /complete and /chat an exception of the model call is
\* caught at the call and the request ends with an InferenceError payload; it
\* never leaves the handler unhandled.
C8_ModelErrorsCaught ==
    \A r \in Requests :
        (req[r].route \in {"generate", "complete", "chat"} /\ Done(r) /\ Raised(r)) =>
            outcome[r] = "InferenceError"

\* C9: a request that finds the model held is not queued without bound; with
\* the slot timeout 0 it ends with TimeoutError and never enters the model call.
C9_BusyMeansTimeout ==
    \A r \in Requests :
        waitedBusy[r] =>
            /\ Calls(r) = 0
            /\ (Done(r) /\ Admitted(r)) => outcome[r] = "TimeoutError"

\* C10: a /batch request with more prompts than the configured maximum batch
\* size is rejected with BatchTooLarge and none of its prompts reaches the model.
C10_BatchTooLargeRejected ==
    \A r \in Requests :
        (/\ req[r].route = "batch"
         /\ req[r].body.typed
         /\ Len(req[r].body.prompts) > MaxBatchSize) =>
            /\ Calls(r) = 0
            /\ (Done(r) /\ Admitted(r)) => outcome[r] = "BatchTooLarge"

\* Text helpers for the statements about prompts.
Contains(s, sub) ==
    \E i \in 1 .. (Len(s) + 1) :
        i + Len(sub) - 1 <= Len(s) /\ SubSeq(s, i, i + Len(sub) - 1) = sub
EndsWith(s, suffix) ==
    Len(suffix) <= Len(s) /\ SubSeq(s, Len(s) - Len(suffix) + 1, Len(s)) = suffix
Occurrences(s, sub) ==
    Cardinality({i \in 1 .. Len(s) :
        i + Len(sub) - 1 <= Len(s) /\ SubSeq(s, i, i + Len(sub) - 1) = sub})
SegmentEnd == "\n\n"
AssistantMarker == "Assistant: "

\* C11: the prompt /chat passes to the model is the in-order concatenation of
\* one role-tagged segment per message, each holding its message's content,
\* followed by the open assistant marker "Assistant: ".
C11_ChatPromptTagsEveryMessage ==
    \A r \in Requests :
        (req[r].route = "chat" /\ Calls(r) >= 1) =>
            LET prompt == modelCalls[r][1].prompt
                messages == req[r].body.messages
            IN  /\ EndsWith(prompt, AssistantMarker)
                /\ Occurrences(prompt, SegmentEnd) = Len(messages)
                /\ \A i \in 1 .. Len(messages) :
                      Contains(prompt, ": " \o messages[i].content \o SegmentEnd)

\* C12: for a /complete request the prompt passed to the model is the submitted
\* code unchanged, and full_code is the submitted code followed by the returned
\* completion.
C12_CompletePromptIsCode ==
    \A r \in Requests :
        req[r].route = "complete" =>
            /\ Calls(r) <= 1
            /\ \A i \in 1 .. Calls(r) : modelCalls[r][i].prompt = req[r].body.code
            /\ (Done(r) /\ outcome[r] = "OK200") =>
                  /\ Calls(r) = 1
                  /\ response[r].completion = ModelText(req[r].body.code)
                  /\ response[r].full_code = req[r].body.code \o response[r].completion
                  /\ Len(response[r].full_code) =
                        Len(req[r].body.code) + Len(response[r].completion)

\* A /complete request whose code starts and ends with white space has been
\* answered.
C12_Witness ==
    \E r \in Requests :
        /\ req[r].route = "complete" /\ Done(r) /\ outcome[r] = "OK200"
        /\ req[r].body.code = " x = "
        /\ response[r].full_code = " x =  < x = >\n"

\* Authentication is enforced: some presented key is refused.
Enforced == \E k \in PresentedKeys : Denied(API_KEY, k)

\* C13: auth_enabled of /health, and the authentication field of /, say
\* enabled exactly when authentication is enforced; an empty configured key is
\* reported as disabled.
C13_ReportedAuthIsEnforced ==
    \A r \in Requests :
        /\ (req[r].route = "health" /\ Done(r)) =>
              (response[r].auth_enabled <=> Enforced)
        /\ (req[r].route = "root" /\ Done(r)) =>
              ((response[r].authentication = "Required") <=> Enforced)

Open(r) == req[r].route \in OpenRoutes

\* C14: GET /health and GET / are answered without any API key check, whatever
\* key is configured or presented; answering them never invokes the model and
\* changes no server state (the configured key, the model's calls, the other
\* requests).
C14_OpenRoutesFrame ==
    /\ [](\A r \in Requests :
            Open(r) =>
                /\ pc[r] \in {"pending", "endpoint", "done"}
                /\ Calls(r) = 0
                /\ Done(r) => outcome[r] = "OK200")
    /\ [][\A r \in Requests :
            (Open(r) /\ pc[r] = "endpoint" /\ pc'[r] = "done") =>
                /\ API_KEY' = API_KEY
                /\ modelCalls' = modelCalls
                /\ results' = results
                /\ \A q \in Requests \ {r} :
                      /\ pc'[q] = pc[q]
                      /\ req'[q] = req[q]
                      /\ outcome'[q] = outcome[q]
                      /\ response'[q] = response[q]]_vars

\* With the key "secret" configured, /health has been answered to a request
\* with a wrong key and / to a request without one.
C14_Witness ==
    /\ API_KEY = "secret"
    /\ \E r \in Requests :
          /\ Done(r) /\ outcome[r] = "OK200"
          /\ req[r].route = "health" /\ req[r].key = "wrong"
          /\ response[r].kind = "health"

Batch(r) == req[r].route = "batch"
CallsEnded(r, how) ==
    Cardinality({i \in 1 .. Calls(r) : modelCalls[r][i].result = how})

\* C15: within one /batch request the items go to the model strictly one after
\* the other in index order: the call for an item starts only when the calls for
\* all items before it have returned or raised, so at most one item of the
\* batch is in the model.
C15_BatchSequential ==
    \A r \in Requests :
        Batch(r) =>
            /\ Calls(r) = idx[r] + (IF pc[r] = "model" THEN 1 ELSE 0)
            /\ CallsEnded(r, "running") = (IF pc[r] = "model" THEN 1 ELSE 0)
            /\ \A i \in 1 .. Calls(r) :
                  /\ modelCalls[r][i].prompt = req[r].body.prompts[i]
                  /\ i < Calls(r) => modelCalls[r][i].result \in {"returned", "raised"}

\* The second item of a batch is in the model after the first one's call
\* raised, while another request waits.
C15_Witness ==
    \E r, q \in Requests :
        /\ Batch(r) /\ pc[r] = "model" /\ idx[r] = 1
        /\ modelCalls[r][1].result = "raised"
        /\ modelCalls[r][2].result = "running"
        /\ pc[q] = "pending"

\* C16: an authenticated /generate, /complete or /chat request (its body
\* accepted) invokes the model exactly once and its answer comes from that one
\* call; an authenticated /batch request with N prompts invokes it exactly N
\* times, once per prompt, also when items fail.
C16_CallsPerRequest ==
    \A r \in Requests :
        /\ (Protected(r) /\ ValidBody(req[r].body)) => Calls(r) <= Demand(r)
        /\ (Done(r) /\ Admitted(r)) =>
              /\ Calls(r) = Demand(r)
              /\ CallsEnded(r, "running") = 0
              /\ Batch(r) =>
                    /\ Len(response[r].results) = Calls(r)
                    /\ \A i \in 1 .. Calls(r) :
                          modelCalls[r][i].prompt = req[r].body.prompts[i]
              /\ ~Batch(r) =>
                    /\ (outcome[r] = "OK200") <=> (modelCalls[r][1].result = "returned")
                    /\ (outcome[r] = "OK200" /\ req[r].route = "generate") =>
                          response[r].generated_text = ModelText(modelCalls[r][1].prompt)
                    /\ (outcome[r] = "OK200" /\ req[r].route = "complete") =>
                          response[r].completion = ModelText(modelCalls[r][1].prompt)
                    /\ (outcome[r] = "OK200" /\ req[r].route = "chat") =>
                          response[r].response = Strip(ModelText(modelCalls[r][1].prompt))

\* A batch of three prompts has ended after three model calls of which the last
\* two raised.
C16_Witness ==
    \E r \in Requests :
        /\ BatchDone(r) /\ Calls(r) = 3
        /\ modelCalls[r][1].result = "returned"
        /\ modelCalls[r][2].result = "raised"
        /\ modelCalls[r][3].result = "raised"

\* C17: in a /batch response every result has status success or error,
\* successful and failed count them (the model calls that returned, those that
\* raised), and successful + failed = total_prompts = the number of input
\* prompts = the number of results.
C17_BatchCounts ==
    \A r \in Requests :
        BatchDone(r) =>
            /\ \A i \in 1 .. Len(response[r].results) :
                  response[r].results[i].status \in {"success", "error"}
            /\ response[r].successful = CallsEnded(r, "returned")
            /\ response[r].failed = CallsEnded(r, "raised")
            /\ response[r].successful =
                  Cardinality({i \in 1 .. Len(response[r].results) :
                      response[r].results[i].status = "success"})
            /\ response[r].failed =
                  Cardinality({i \in 1 .. Len(response[r].results) :
                      response[r].results[i].status = "error"})
            /\ response[r].successful + response[r].failed = response[r].total_prompts
            /\ response[r].total_prompts = Len(req[r].body.prompts)
            /\ response[r].total_prompts = Len(response[r].results)

\* A batch of three prompts has been answered with successful = 2 and
\* failed = 1.
C17_Witness ==
    \E r \in Requests :
        /\ BatchDone(r)
        /\ response[r].total_prompts = 3
        /\ response[r].successful = 2
        /\ response[r].failed = 1

Handling(r) == pc[r] \in {"auth", "validate", "endpoint", "model"}

\* C18: a handler has no suspension point between its start and its return: at
\* most one request is being handled, and while it is (a /batch request between
\* its first and its last model call included) no other request takes a step:
\* none starts, calls the model or is answered, /health included.  Clients can
\* only send requests, which wait.
C18_RunToCompletion ==
    /\ [](\A r, q \in Requests : (Handling(r) /\ Handling(q)) => r = q)
    /\ [][\A r \in Requests :
            Handling(r) =>
                \A q \in Requests \ {r} :
                    /\ pc'[q] = pc[q] \/ (pc[q] = "new" /\ pc'[q] = "pending")
                    /\ modelCalls'[q] = modelCalls[q]
                    /\ outcome'[q] = outcome[q]
                    /\ response'[q] = response[q]]_vars

\* A /batch request is between its first and its second model call while a
\* /health request, sent during the first, waits unanswered.
C18_Witness ==
    \E r, q \in Requests :
        /\ Batch(r) /\ pc[r] = "endpoint" /\ idx[r] = 1
        /\ Len(req[r].body.prompts) = 2
        /\ req[q].route = "health" /\ pc[q] = "pending" /\ waitedBusy[q]
====
